---- MODULE Spec2Model ----
(***************************************************************************)
(* BitEye scanner (src/src/app/page.tsx, the BitEyeScanner component that  *)
(* starts at line 248): the fetch cycle (fetchData), the merge of the two  *)
(* provider pages with the derived 15m/4h changes, and the refresh         *)
(* scheduler (the useEffect with setInterval).                             *)
(*                                                                         *)
(* Conventions.  A nullable JavaScript value is a sequence: <<>> is        *)
(* null/undefined and <<v>> is the value v.  Prices are integers (price    *)
(* units); a percentage change is an integer number of 1/Scale percent, so *)
(* Number(x.toFixed(4)) is a rounding to an integer.  Time is in           *)
(* milliseconds.                                                           *)
(***************************************************************************)
EXTENDS Integers, Sequences, FiniteSets, TLC

VARIABLES
    coins,        \* useState<Coin[]>([])            line 249
    loading,      \* useState(true)                  line 250
    error,        \* useState('')                    line 251
    lastUpdate,   \* useState<Date | null>(null)     line 252
    sched,        \* life of the scheduler effect: "idle", "running", "stopped"
    timerActive,  \* the setInterval timer exists and is not cleared
    nextTick,     \* time at which the interval timer fires next
    now,          \* the clock, ms since the component was constructed
    calls,        \* number of calls of fetchData so far; the n-th call is cycle n
    inflight,     \* the cycles awaiting their requests: cycle id -> its frame
    lastOk,       \* frame of the cycle whose lines 291-312 ran last, if any
    lastFail,     \* frame of the cycle whose catch block ran last, if any
    dIn,          \* input of one evaluation of the .map callback (lines 293-307)
    dOut,         \* its result
    sortKey,         \* useState<SortKey>('rank')       line 255
    sortOrder,       \* useState<SortOrder>('desc')     line 256
    sortedCoins,     \* the value of the useMemo of lines 325-341
    userThresholds,  \* useState(defaultThresholds)     line 259
    soundEnabled,    \* useState(true)                  line 254
    bigMove,         \* bigMove of the last run of the effect of lines 355-362
    played,          \* audio.play() calls since coins was last set
    mIn,          \* the two pages of one evaluation of lines 291-308
    mOut,         \* its result, for the pages in both orders
    cIn,          \* value and horizon of one call of getChangeClass
    cOut          \* its result

\* The state of the table header, of the sliders and of the alert.
uiVars == <<sortKey, sortOrder, sortedCoins, userThresholds, soundEnabled,
            bigMove, played>>

\* Inputs and results of the functions evaluated on their own.
fnVars == <<mIn, mOut, cIn, cOut>>

vars == <<coins, loading, error, lastUpdate, sched, timerActive, nextTick, now,
          calls, inflight, lastOk, lastFail, dIn, dOut, uiVars, fnVars>>

(***************************************************************************)
(* Bounds of the model and constants of the program                        *)
(***************************************************************************)
MaxCycles == 3
MaxTicks == 2
MaxSeriesLen == 35
MaxPageLen == 2
MaxPlays == 3

Interval == 60000
Timeout == 15000

\* The clock stops after MaxTicks periods of the timer, and is observed
\* twice per period and whenever something is due.
MaxTime == MaxTicks * Interval
TimeStep == Interval \div 2
Lookback15m == 15
Lookback4h == 34
Lookback4hAlt == 30
Percent == 100
Scale == 10000

NoValue == <<>>
\* The text of line 314 (its dash written in ASCII).
FailedMessage == "Failed to load data - retrying..."

(***************************************************************************)
(* Momentum derivation: the body of the .map callback, lines 293-307       *)
(***************************************************************************)
\* prices[k] of a JavaScript array: undefined outside 0..length-1.
At(prices, k) == IF k >= 0 /\ k < Len(prices) THEN <<prices[k + 1]>> ELSE NoValue

\* x || alt on an optional number: undefined and 0 are falsy.
OrElse(x, alt) == IF x # NoValue /\ x[1] # 0 THEN x[1] ELSE alt

price15mAgo(prices, nowPrice) ==
    OrElse(At(prices, Len(prices) - Lookback15m), nowPrice)

price4hAgo(prices, nowPrice) ==
    OrElse(At(prices, Len(prices) - Lookback4h),
           OrElse(At(prices, Len(prices) - Lookback4hAlt), nowPrice))

\* n / d rounded to the nearest integer, halves away from zero (d > 0):
\* Number(x.toFixed(4)) on a value counted in 1/Scale percent.
RoundDiv(n, d) ==
    IF n >= 0 THEN (2 * n + d) \div (2 * d) ELSE -((2 * (-n) + d) \div (2 * d))

\* ref > 0 ? ((nowPrice - ref) / ref) * 100 : null, then toFixed(4).
change(nowPrice, ref) ==
    IF ref > 0 THEN <<RoundDiv((nowPrice - ref) * Percent * Scale, ref)>>
    ELSE NoValue

change15m(prices, nowPrice) == change(nowPrice, price15mAgo(prices, nowPrice))

change4h(prices, nowPrice) == change(nowPrice, price4hAgo(prices, nowPrice))

\* The object the callback returns: {...coin, price_change_15m, price_change_4h},
\* every field of the row kept.
derive(coin) ==
    [f \in DOMAIN coin \cup {"price_change_15m", "price_change_4h"} |->
        IF f = "price_change_15m" THEN change15m(coin.prices, coin.current_price)
        ELSE IF f = "price_change_4h" THEN change4h(coin.prices, coin.current_price)
        ELSE coin[f]]

(***************************************************************************)
(* Merge: lines 291-292                                                    *)
(***************************************************************************)
\* ToNumber of an optional number: null is 0.
ToNumber(x) == IF x = NoValue THEN 0 ELSE x[1]

\* Variant of rankCompare: b - a in place of a - b.
rankCompareDescending(a, b) == ToNumber(b.market_cap_rank) - ToNumber(a.market_cap_rank)

\* The comparator of line 292; the provider sends market_cap_rank: null for
\* a row it has no rank for, and null - n is 0 - n.
rankCompare(a, b) == ToNumber(a.market_cap_rank) - ToNumber(b.market_cap_rank)

\* Array.prototype.sort is stable: x goes after every element that does not
\* compare greater than it.
RECURSIVE InsertByRank(_, _)
InsertByRank(s, x) ==
    IF s = <<>> THEN <<x>>
    ELSE IF rankCompare(s[Len(s)], x) <= 0 THEN Append(s, x)
    ELSE Append(InsertByRank(SubSeq(s, 1, Len(s) - 1), x), s[Len(s)])

\* Variant of sortByRank: the rows stay in the order of the concatenation.
keepOrder(s) == s

RECURSIVE sortByRank(_)
sortByRank(s) ==
    IF s = <<>> THEN <<>>
    ELSE InsertByRank(sortByRank(SubSeq(s, 1, Len(s) - 1)), s[Len(s)])

\* .map(callback) of line 293.
mapDerive(s) == [i \in 1..Len(s) |-> derive(s[i])]

(***************************************************************************)
(* Ranking: sortedCoins and handleSort, lines 325-346                      *)
(***************************************************************************)
\* c.f of a row: a field the provider did not send reads as undefined.
Get(c, f) == IF f \in DOMAIN c THEN c[f] ELSE NoValue

SortKeys == {"rank", "price", "15m", "1h", "4h", "24h", "7d", "market_cap", "volume"}

HorizonField(tf) ==
    CASE tf = "15m" -> "price_change_15m"
      [] tf = "1h" -> "price_change_percentage_1h_in_currency"
      [] tf = "4h" -> "price_change_4h"
      [] tf = "24h" -> "price_change_percentage_24h_in_currency"
      [] tf = "7d" -> "price_change_percentage_7d_in_currency"

\* Variant of sortValue: x ?? 0 in place of x ?? -Infinity.
sortValueNullAsZero(c, key) ==
    CASE key = "rank" -> <<ToNumber(Get(c, "market_cap_rank"))>>
      [] key = "price" -> <<c.current_price>>
      [] key = "market_cap" -> <<ToNumber(Get(c, "market_cap"))>>
      [] key = "volume" -> <<ToNumber(Get(c, "total_volume"))>>
      [] OTHER -> <<ToNumber(Get(c, HorizonField(key)))>>

\* aVal / bVal of the switch of lines 328-338, as a value to compare: <<v>>
\* is the number v and <<>> is -Infinity.  A null rank, price, cap or volume
\* compares as the number 0; x ?? -Infinity turns null into -Infinity.
sortValue(c, key) ==
    CASE key = "rank" -> <<ToNumber(Get(c, "market_cap_rank"))>>
      [] key = "price" -> <<c.current_price>>
      [] key = "market_cap" -> <<ToNumber(Get(c, "market_cap"))>>
      [] key = "volume" -> <<ToNumber(Get(c, "total_volume"))>>
      [] OTHER -> Get(c, HorizonField(key))

\* x > y on such values.
Greater(x, y) == x # <<>> /\ (y = <<>> \/ x[1] > y[1])

\* The comparator of line 339.
compare(a, b, key, order) ==
    LET aVal == sortValue(a, key)
        bVal == sortValue(b, key)
    IN  IF order = "asc"
        THEN (IF Greater(aVal, bVal) THEN 1 ELSE -1)
        ELSE (IF Greater(bVal, aVal) THEN 1 ELSE -1)

\* The arrangements of the elements of s.
Arrangements(s) ==
    { [i \in 1..Len(s) |-> s[f[i]]] : f \in Permutations(1..Len(s)) }

\* Variant of sortOutcomes: the rows without a value for the key are left
\* out before sorting.
sortOutcomesOfAvailable(s, key, order) ==
    { r \in Arrangements(SelectSeq(s, LAMBDA c : sortValue(c, key) # <<>>)) :
        \A i, j \in 1..Len(r) :
            i < j => ~(compare(r[i], r[j], key, order) > 0
                       /\ compare(r[j], r[i], key, order) < 0) }

\* [...coins].sort(comparator), lines 326-340.  The comparator answers -1
\* both ways for two equal values, so it is not a consistent comparator and
\* the order Array.prototype.sort leaves is implementation-defined: every
\* arrangement of the copy in which no pair stands against what the
\* comparator says of it both ways is a possible result.
sortOutcomes(s, key, order) ==
    { r \in Arrangements(s) :
        \A i, j \in 1..Len(r) :
            i < j => ~(compare(r[i], r[j], key, order) > 0
                       /\ compare(r[j], r[i], key, order) < 0) }

\* Variant of handleSort: the first click on a column sorts it ascending.
handleSortAscendingFirst(key) ==
    /\ IF sortKey = key
       THEN /\ sortOrder' = (IF sortOrder = "asc" THEN "desc" ELSE "asc")
            /\ sortKey' = sortKey
       ELSE /\ sortKey' = key
            /\ sortOrder' = "asc"
    /\ sortedCoins' \in sortOutcomes(coins, sortKey', sortOrder')

\* handleSort(key), lines 343-346, and the recomputation of sortedCoins in
\* the render that follows.
handleSort(key) ==
    /\ IF sortKey = key
       THEN /\ sortOrder' = (IF sortOrder = "asc" THEN "desc" ELSE "asc")
            /\ sortKey' = sortKey
       ELSE /\ sortKey' = key
            /\ sortOrder' = "desc"
    /\ sortedCoins' \in sortOutcomes(coins, sortKey', sortOrder')

(***************************************************************************)
(* Thresholds and alert: lines 258-259 and 348-373                         *)
(***************************************************************************)
Horizons == {"15m", "1h", "4h", "24h", "7d"}

\* defaultThresholds of line 258, in percent.
defaultThresholds ==
    [tf \in Horizons |->
        CASE tf = "15m" -> 3 [] tf = "1h" -> 5 [] tf = "4h" -> 10
          [] tf = "24h" -> 15 [] tf = "7d" -> 40]

\* min and max of the range inputs, line 406.
SliderMin == 1
SliderMax == 50

\* Math.abs
Abs(x) == IF x < 0 THEN -x ELSE x

\* val !== null && Math.abs(val) >= thresh, with val in 1/Scale percent and
\* thresh in percent (an undefined val gives NaN >= thresh, false as well).
crosses(val, thresh) == val # NoValue /\ Abs(val[1]) >= thresh * Scale

\* Variant of bigMoveOf: a crossing on any of the five horizons counts.
bigMoveOfAllHorizons(cs, thresholds) ==
    \E i \in 1..Len(cs) : \E tf \in Horizons :
        crosses(Get(cs[i], HorizonField(tf)), thresholds[tf])

\* bigMove of lines 356-360.
bigMoveOf(cs, thresholds) ==
    \E i \in 1..Len(cs) :
        \/ crosses(Get(cs[i], "price_change_15m"), thresholds["15m"])
        \/ crosses(Get(cs[i], "price_change_percentage_1h_in_currency"), thresholds["1h"])
        \/ crosses(Get(cs[i], "price_change_4h"), thresholds["4h"])

\* Variant of playAlert: the sound is played whatever the flag says.
playAlertAlways(enabled) == 1

\* playAlert of lines 348-353: the number of audio.play() calls it makes.
playAlert(enabled) == IF enabled THEN 1 ELSE 0

\* The effect of lines 355-362, run after a render in which coins,
\* userThresholds or soundEnabled changed; before is the number of plays so
\* far for the current snapshot.
alertEffect(before) ==
    /\ bigMove' = bigMoveOf(coins', userThresholds')
    /\ played' = before + (IF bigMoveOf(coins', userThresholds')
                           THEN playAlert(soundEnabled') ELSE 0)

\* Variant of getChangeClass: a value of 0 is treated like null.
getChangeClassZeroNeutral(val, tf) ==
    IF val = NoValue \/ val = <<0>> THEN "text-gray-400"
    ELSE IF Abs(val[1]) >= userThresholds[tf] * Scale
         THEN (IF val[1] > 0 THEN "bg-green-100 text-green-800 font-bold animate-pulse"
               ELSE "bg-red-100 text-red-800 font-bold animate-pulse")
         ELSE (IF val[1] > 0 THEN "text-green-600" ELSE "text-red-600")

\* Variant of getChangeClass: > in place of >=.
getChangeClassStrict(val, tf) ==
    IF val = NoValue THEN "text-gray-400"
    ELSE IF Abs(val[1]) > userThresholds[tf] * Scale
         THEN (IF val[1] > 0 THEN "bg-green-100 text-green-800 font-bold animate-pulse"
               ELSE "bg-red-100 text-red-800 font-bold animate-pulse")
         ELSE (IF val[1] > 0 THEN "text-green-600" ELSE "text-red-600")

\* getChangeClass of lines 367-373.
getChangeClass(val, tf) ==
    IF val = NoValue THEN "text-gray-400"
    ELSE IF Abs(val[1]) >= userThresholds[tf] * Scale
         THEN (IF val[1] > 0 THEN "bg-green-100 text-green-800 font-bold animate-pulse"
               ELSE "bg-red-100 text-red-800 font-bold animate-pulse")
         ELSE (IF val[1] > 0 THEN "text-green-600" ELSE "text-red-600")

(***************************************************************************)
(* The provider: what a request of cycle c for page p can resolve with.    *)
(* A page is ordered by market cap, which can disagree with the rank field *)
(* (page 1), and the two pages are read at different moments, so a row can *)
(* show up on both (page 2).  Prices differ from cycle to cycle; the field *)
(* cycle is the identity of the response the row object came from.         *)
(***************************************************************************)
Row(id, rank, price, prices, c) ==
    [id |-> id, market_cap_rank |-> rank, current_price |-> price,
     prices |-> prices, cycle |-> c]

PageRows(c, p) ==
    IF p = 1
    THEN { << Row("eth", <<2>>, 200 + c, <<>>, c), Row("btc", <<1>>, 1000 + c, <<990, 995>>, c) >> }
    ELSE { << Row("sol", <<3>>, 30 + c, <<0, 29>>, c) >>,
           << Row("eth", <<3>>, 200 + c, <<>>, c) >> }

Pages == 1..2

(***************************************************************************)
(* fetchData: lines 261-317                                                *)
(***************************************************************************)
\* Variant of allResolved: the continuation runs as soon as one request has
\* resolved.
anyResolved(r) == r.page[1] = "ok" \/ r.page[2] = "ok"

\* Promise.all of line 266 resolves when both requests have resolved.
allResolved(r) == r.page[1] = "ok" /\ r.page[2] = "ok"

\* Variant of combined: the new rows are appended to the current snapshot.
combinedWithCurrent(r) == coins \o r.data[1] \o r.data[2]

\* [...page1.data, ...page2.data] of line 291.
combined(r) == r.data[1] \o r.data[2]

\* Variant of allCoins: the result of a cycle that is not the one started
\* last is dropped.
allCoinsOfNewest(r) ==
    IF r.id = calls THEN mapDerive(sortByRank(r.data[1] \o r.data[2])) ELSE coins

\* allCoins of lines 291-308.
allCoins(r) == mapDerive(sortByRank(combined(r)))

\* The frame of a call: who made it, when, and what its two requests have
\* come to.
Frame(c, origin) ==
    [id |-> c, origin |-> origin, startedAt |-> now,
     page |-> [p \in Pages |-> "pending"],
     data |-> [p \in Pages |-> <<>>]]

Without(f, c) == [k \in DOMAIN f \ {c} |-> f[k]]

With(f, c, r) == [k \in DOMAIN f \cup {c} |-> IF k = c THEN r ELSE f[k]]

\* Variant of fetchData: a call made while loading is set returns at once.
fetchDataUnlessLoading(origin) ==
    IF loading
    THEN UNCHANGED <<calls, loading, error, inflight, coins, lastUpdate, lastOk, lastFail>>
    ELSE /\ calls < MaxCycles
         /\ calls' = calls + 1
         /\ loading' = TRUE
         /\ error' = ""
         /\ inflight' = With(inflight, calls + 1, Frame(calls + 1, origin))
         /\ UNCHANGED <<coins, lastUpdate, lastOk, lastFail>>

\* Lines 262-289: setLoading(true), setError(''), both requests issued.
fetchData(origin) ==
    /\ calls < MaxCycles
    /\ calls' = calls + 1
    /\ loading' = TRUE
    /\ error' = ""
    /\ inflight' = With(inflight, calls + 1, Frame(calls + 1, origin))
    /\ UNCHANGED <<coins, lastUpdate, lastOk, lastFail>>

\* A request resolves.  When Promise.all resolves with it, the continuation
\* (lines 291-312) runs in the same task and the call returns; the render
\* that follows setCoins recomputes sortedCoins and runs the alert effect.
Respond(c, p, rows) ==
    /\ c \in DOMAIN inflight
    /\ inflight[c].page[p] = "pending"
    /\ LET r == [inflight[c] EXCEPT !.page[p] = "ok", !.data[p] = rows]
       IN  IF allResolved(r)
           THEN /\ coins' = allCoins(r)
                /\ lastUpdate' = <<now>>
                /\ loading' = FALSE
                /\ inflight' = Without(inflight, c)
                /\ lastOk' = <<r>>
                /\ UNCHANGED <<error, lastFail, sortKey, sortOrder, userThresholds,
                               soundEnabled>>
                /\ sortedCoins' \in sortOutcomes(coins', sortKey, sortOrder)
                /\ alertEffect(0)
           ELSE /\ inflight' = [inflight EXCEPT ![c] = r]
                /\ UNCHANGED <<coins, lastUpdate, loading, error, lastOk, lastFail,
                               uiVars>>
    /\ UNCHANGED <<sched, timerActive, nextTick, now, calls, dIn, dOut, fnVars>>

\* A request rejects (network error, or its timeout of lines 276/287):
\* Promise.all rejects at once, the catch block (lines 313-316) runs and the
\* call returns; what the other request resolved or resolves with is never
\* read.
Reject(c, p) ==
    /\ c \in DOMAIN inflight
    /\ inflight[c].page[p] = "pending"
    /\ error' = FailedMessage
    /\ loading' = FALSE
    /\ inflight' = Without(inflight, c)
    /\ lastFail' = <<[inflight[c] EXCEPT !.page[p] = "failed",
                                         !.data = [q \in Pages |-> <<>>]]>>
    /\ UNCHANGED <<coins, lastUpdate, lastOk, sched, timerActive, nextTick, now,
                   calls, dIn, dOut, uiVars, fnVars>>

\* The Refresh button, line 393: rendered while the component is mounted.
Refresh ==
    /\ sched = "running"
    /\ fetchData("manual")
    /\ UNCHANGED <<sched, timerActive, nextTick, now, dIn, dOut, uiVars, fnVars>>

(***************************************************************************)
(* The scheduler: the effect of lines 319-323                              *)
(***************************************************************************)
\* Lines 320-321: fetchData() and setInterval(fetchData, 60000).
Mount ==
    /\ sched = "idle"
    /\ fetchData("mount")
    /\ sched' = "running"
    /\ timerActive' = TRUE
    /\ nextTick' = now + Interval
    /\ UNCHANGED <<now, dIn, dOut, uiVars, fnVars>>

\* The interval timer fires: its callback is fetchData itself.
Tick ==
    /\ timerActive
    /\ now = nextTick
    /\ fetchData("tick")
    /\ nextTick' = nextTick + Interval
    /\ UNCHANGED <<sched, timerActive, now, dIn, dOut, uiVars, fnVars>>

\* Variant of clearInterval: the timer is left as it is.
keepInterval(active) == active

\* clearInterval(interval) of line 322.
clearInterval(active) == FALSE

\* The cleanup the effect returns, line 322.
Cleanup ==
    /\ sched = "running"
    /\ sched' = "stopped"
    /\ timerActive' = clearInterval(timerActive)
    /\ UNCHANGED <<coins, loading, error, lastUpdate, nextTick, now, calls,
                   inflight, lastOk, lastFail, dIn, dOut, uiVars, fnVars>>

\* The times at which something is due: the timer, and the timeout of the
\* requests of every cycle in flight.
Deadlines ==
    (IF timerActive THEN {nextTick} ELSE {})
    \cup { inflight[c].startedAt + Timeout : c \in DOMAIN inflight }

\* Time passes, up to the next thing that is due.
Advance ==
    /\ sched # "idle"
    /\ now < MaxTime
    /\ \A d \in Deadlines : now < d
    /\ now' = CHOOSE t \in Deadlines \cup {now + TimeStep, MaxTime} :
                 \A u \in Deadlines \cup {now + TimeStep, MaxTime} : t <= u
    /\ UNCHANGED <<coins, loading, error, lastUpdate, sched, timerActive,
                   nextTick, calls, inflight, lastOk, lastFail, dIn, dOut, uiVars, fnVars>>

\* The initial values of lines 254-259 and the first render: no coins.
InitUi ==
    /\ sortKey = "rank"
    /\ sortOrder = "desc"
    /\ sortedCoins = <<>>
    /\ userThresholds = defaultThresholds
    /\ soundEnabled = TRUE
    /\ bigMove = FALSE
    /\ played = 0

\* No function is being evaluated on its own.
InitFn ==
    /\ mIn = NoValue
    /\ mOut = NoValue
    /\ cIn = NoValue
    /\ cOut = NoValue

Init ==
    /\ coins = <<>>
    /\ loading = TRUE
    /\ error = ""
    /\ lastUpdate = NoValue
    /\ sched = "idle"
    /\ timerActive = FALSE
    /\ nextTick = 0
    /\ now = 0
    /\ calls = 0
    /\ inflight = <<>>
    /\ lastOk = NoValue
    /\ lastFail = NoValue
    /\ dIn = NoValue
    /\ dOut = NoValue
    /\ InitUi
    /\ InitFn

Next ==
    \/ Mount
    \/ Tick
    \/ Refresh
    \/ \E c \in 1..MaxCycles, p \in Pages : \E rows \in PageRows(c, p) : Respond(c, p, rows)
    \/ \E c \in 1..MaxCycles, p \in Pages : Reject(c, p)
    \/ Cleanup
    \/ Advance

Spec == Init /\ [][Next]_vars

(***************************************************************************)
(* The .map callback on its own: one coin drawn from DeriveInputs, derived *)
(***************************************************************************)
\* A series of len samples, oldest first; sample i of "rise" is 100 + 10 i,
\* "gaps" has a 0 at every third sample and "dips" a negative sample at every
\* second one.
Series(len, kind) ==
    [i \in 1..len |->
        IF kind = "gaps" /\ i % 3 = 0 THEN 0
        ELSE IF kind = "dips" /\ i % 2 = 0 THEN -5
        ELSE 100 + 10 * i]

DeriveInputs ==
    { Row("btc", <<1>>, np, Series(len, kind), 1) :
        np \in {0, 150, 333}, len \in 0..MaxSeriesLen, kind \in {"rise", "gaps", "dips"} }

InitDerive ==
    /\ coins = <<>>
    /\ loading = TRUE
    /\ error = ""
    /\ lastUpdate = NoValue
    /\ sched = "idle"
    /\ timerActive = FALSE
    /\ nextTick = 0
    /\ now = 0
    /\ calls = 0
    /\ inflight = <<>>
    /\ lastOk = NoValue
    /\ lastFail = NoValue
    /\ dIn \in { <<coin>> : coin \in DeriveInputs }
    /\ dOut = NoValue
    /\ InitUi
    /\ InitFn

Derive ==
    /\ dIn # NoValue
    /\ dOut = NoValue
    /\ dOut' = <<derive(dIn[1])>>
    /\ UNCHANGED <<coins, loading, error, lastUpdate, sched, timerActive,
                   nextTick, now, calls, inflight, lastOk, lastFail, dIn,
                   uiVars, fnVars>>

NextDerive == Derive

SpecDerive == InitDerive /\ [][NextDerive]_vars

(***************************************************************************)
(* The merge on its own: lines 291-308 on two pages drawn from MergePages, *)
(* evaluated for the pages in both orders                                  *)
(***************************************************************************)
\* Rows a provider can send: ranked rows, a row that shares its rank with
\* another one (the ranking moved between the two requests), a second copy
\* of a row with a newer price, and a row without a rank.
MergeRows ==
    { Row("btc", <<1>>, 1000, <<>>, 1),
      Row("eth", <<2>>, 200, <<>>, 1),
      Row("sol", <<3>>, 30, <<>>, 1),
      Row("ada", <<2>>, 5, <<>>, 1),
      Row("eth", <<2>>, 201, <<>>, 1),
      Row("new", NoValue, 7, <<>>, 1) }

\* The pages of at most MaxPageLen different rows.
MergePages ==
    UNION { { p \in [1..n -> MergeRows] : \A i, j \in 1..n : i # j => p[i] # p[j] } :
            n \in 0..MaxPageLen }

\* The part of a frame the merge reads.
PagesFrame(a, b) == [data |-> <<a, b>>]

InitMerge ==
    /\ coins = <<>>
    /\ loading = TRUE
    /\ error = ""
    /\ lastUpdate = NoValue
    /\ sched = "idle"
    /\ timerActive = FALSE
    /\ nextTick = 0
    /\ now = 0
    /\ calls = 0
    /\ inflight = <<>>
    /\ lastOk = NoValue
    /\ lastFail = NoValue
    /\ dIn = NoValue
    /\ dOut = NoValue
    /\ InitUi
    /\ mIn \in { <<PagesFrame(a, b)>> : a, b \in MergePages }
    /\ mOut = NoValue
    /\ cIn = NoValue
    /\ cOut = NoValue

Merge ==
    /\ mIn # NoValue
    /\ mOut = NoValue
    /\ mOut' = <<[ab |-> allCoins(mIn[1]),
                  ba |-> allCoins(PagesFrame(mIn[1].data[2], mIn[1].data[1]))]>>
    /\ UNCHANGED <<coins, loading, error, lastUpdate, sched, timerActive,
                   nextTick, now, calls, inflight, lastOk, lastFail, dIn, dOut,
                   uiVars, mIn, cIn, cOut>>

NextMerge == Merge

SpecMerge == InitMerge /\ [][NextMerge]_vars

(***************************************************************************)
(* The table on its own: snapshots installed by successful cycles, and     *)
(* clicks on the column headers                                            *)
(***************************************************************************)
\* A row as the provider sends it, with every field the component reads.
MarketRow(id, rank, price, prices, h1, h24, d7, cap, vol) ==
    [id |-> id, market_cap_rank |-> rank, current_price |-> price,
     prices |-> prices,
     price_change_percentage_1h_in_currency |-> h1,
     price_change_percentage_24h_in_currency |-> h24,
     price_change_percentage_7d_in_currency |-> d7,
     market_cap |-> <<cap>>, total_volume |-> <<vol>>]

\* Lines 291-312 of a cycle whose requests resolved with pages a and b, and
\* the render that follows: what Respond does when Promise.all resolves.
Install(a, b) ==
    /\ coins' = allCoins(PagesFrame(a, b))
    /\ lastUpdate' = <<now>>
    /\ loading' = FALSE
    /\ UNCHANGED <<error, sched, timerActive, nextTick, now, calls, inflight,
                   lastOk, lastFail, dIn, dOut, sortKey, sortOrder,
                   userThresholds, soundEnabled, fnVars>>
    /\ sortedCoins' \in sortOutcomes(coins', sortKey, sortOrder)
    /\ alertEffect(0)

\* Pages with equal values on every key, with horizons the provider has no
\* value for, with a price of 0 (no 15m and 4h change can be derived), and
\* with rows that arrive in another order than their ranks (page 2).
TablePages(p) ==
    IF p = 1
    THEN { << MarketRow("btc", <<1>>, 1000, <<>>, <<12000>>, <<-30000>>, NoValue, 900, 50),
              MarketRow("eth", <<2>>, 200, <<>>, NoValue, <<-30000>>, NoValue, 400, 50) >>,
           << MarketRow("btc", <<1>>, 1000, <<>>, <<12000>>, <<-30000>>, NoValue, 900, 50) >> }
    ELSE { << MarketRow("ada", <<4>>, 200, Series(Lookback15m, "rise"), <<12000>>, NoValue,
                        <<-10>>, 20, 70),
              MarketRow("sol", <<3>>, 0, <<>>, <<-500>>, <<70000>>, <<10>>, 400, 70) >>,
           << MarketRow("sol", <<3>>, 0, <<>>, <<-500>>, <<70000>>, <<10>>, 400, 70) >>,
           << >> }

\* A click on a column header, line 437.
HeaderClick(key) ==
    /\ handleSort(key)
    /\ UNCHANGED <<coins, loading, error, lastUpdate, sched, timerActive,
                   nextTick, now, calls, inflight, lastOk, lastFail, dIn, dOut,
                   userThresholds, soundEnabled, bigMove, played, fnVars>>

NextSort ==
    \/ \E a \in TablePages(1), b \in TablePages(2) : Install(a, b)
    \/ \E key \in SortKeys : HeaderClick(key)

SpecSort == Init /\ [][NextSort]_vars

(***************************************************************************)
(* getChangeClass on its own                                               *)
(***************************************************************************)
\* Slider settings: the defaults, every slider at its minimum, every slider
\* at its maximum.
ThresholdSettings ==
    { defaultThresholds,
      [tf \in Horizons |-> SliderMin],
      [tf \in Horizons |-> SliderMax] }

\* Values at, one unit below and one unit above every threshold in use, of
\* both signs, zero, and no value.
ClassifyValues ==
    {NoValue, <<0>>} \cup
    { <<sign * (t[tf] * Scale + d)>> :
        sign \in {-1, 1}, t \in ThresholdSettings, tf \in Horizons, d \in {-1, 0, 1} }

InitClassify ==
    /\ coins = <<>>
    /\ loading = TRUE
    /\ error = ""
    /\ lastUpdate = NoValue
    /\ sched = "idle"
    /\ timerActive = FALSE
    /\ nextTick = 0
    /\ now = 0
    /\ calls = 0
    /\ inflight = <<>>
    /\ lastOk = NoValue
    /\ lastFail = NoValue
    /\ dIn = NoValue
    /\ dOut = NoValue
    /\ sortKey = "rank"
    /\ sortOrder = "desc"
    /\ sortedCoins = <<>>
    /\ userThresholds \in ThresholdSettings
    /\ soundEnabled = TRUE
    /\ bigMove = FALSE
    /\ played = 0
    /\ mIn = NoValue
    /\ mOut = NoValue
    /\ cIn \in { <<[val |-> v, tf |-> tf]>> : v \in ClassifyValues, tf \in Horizons }
    /\ cOut = NoValue

Classify ==
    /\ cIn # NoValue
    /\ cOut = NoValue
    /\ cOut' = <<getChangeClass(cIn[1].val, cIn[1].tf)>>
    /\ UNCHANGED <<coins, loading, error, lastUpdate, sched, timerActive,
                   nextTick, now, calls, inflight, lastOk, lastFail, dIn, dOut,
                   uiVars, mIn, mOut, cIn>>

NextClassify == Classify

SpecClassify == InitClassify /\ [][NextClassify]_vars

(***************************************************************************)
(* The alert on its own: cycles as a whole, the sliders, the mute button   *)
(***************************************************************************)
\* Lines 263-264: a cycle starts.
Begin ==
    /\ loading' = TRUE
    /\ error' = ""
    /\ UNCHANGED <<coins, lastUpdate, sched, timerActive, nextTick, now, calls,
                   inflight, lastOk, lastFail, dIn, dOut, uiVars, fnVars>>

\* Lines 313-316: a cycle fails.  coins is not set, so the effect of lines
\* 355-362 does not run.
FailedCycle ==
    /\ error' = FailedMessage
    /\ loading' = FALSE
    /\ UNCHANGED <<coins, lastUpdate, sched, timerActive, nextTick, now, calls,
                   inflight, lastOk, lastFail, dIn, dOut, uiVars, fnVars>>

\* The positions a slider is moved to.
SliderValues(tf) == {SliderMin, defaultThresholds[tf], SliderMax}

\* onChange of a slider, line 409, and the effect of lines 355-362 that
\* runs because userThresholds changed.
SetThreshold(tf, v) ==
    /\ v # userThresholds[tf]
    /\ played < MaxPlays
    /\ userThresholds' = [userThresholds EXCEPT ![tf] = v]
    /\ UNCHANGED <<coins, loading, error, lastUpdate, sched, timerActive,
                   nextTick, now, calls, inflight, lastOk, lastFail, dIn, dOut,
                   sortKey, sortOrder, sortedCoins, soundEnabled, fnVars>>
    /\ alertEffect(played)

\* onClick of the mute button, line 387, and the effect of lines 355-362
\* that runs because soundEnabled changed.
ToggleSound ==
    /\ played < MaxPlays
    /\ soundEnabled' = ~soundEnabled
    /\ UNCHANGED <<coins, loading, error, lastUpdate, sched, timerActive,
                   nextTick, now, calls, inflight, lastOk, lastFail, dIn, dOut,
                   sortKey, sortOrder, sortedCoins, userThresholds, fnVars>>
    /\ alertEffect(played)

NextAlert ==
    \/ Begin
    \/ \E a \in TablePages(1), b \in TablePages(2) : Install(a, b)
    \/ FailedCycle
    \/ \E tf \in Horizons : \E v \in SliderValues(tf) : SetThreshold(tf, v)
    \/ ToggleSound

SpecAlert == Init /\ [][NextAlert]_vars

(***************************************************************************)
(* Properties                                                              *)
(***************************************************************************)
\* A row of the snapshot without its derived fields: the provider's row.
Base(coin) ==
    Row(coin.id, coin.market_cap_rank, coin.current_price, coin.prices, coin.cycle)

\* The provider rows a frame holds.
RowsOf(r) == UNION { { r.data[p][i] : i \in 1..Len(r.data[p]) } : p \in Pages }

\* A cycle fails in a step when its frame becomes the last failed one, and
\* succeeds when it becomes the last successful one (frames carry their id).
FailsInStep == lastFail' # lastFail
SucceedsInStep == lastOk' # lastOk

\* C1: a cycle in which a request fails leaves coins and lastUpdate as they
\* are and sets a non-empty error; coins and lastUpdate change only in the
\* step of a cycle both of whose requests have resolved, so no one-page
\* snapshot is ever installed.
C1_FailureRetainsSnapshot ==
    [][ /\ FailsInStep =>
            /\ coins' = coins
            /\ lastUpdate' = lastUpdate
            /\ error' # ""
        /\ (coins' # coins \/ lastUpdate' # lastUpdate) =>
            /\ SucceedsInStep
            /\ \A p \in Pages : lastOk'[1].page[p] = "ok" ]_vars

\* C1 witness: page 1 of a cycle resolved, page 2 failed, and the snapshot of
\* an earlier cycle is still the current one, with the error set.
C1_Witness ==
    /\ lastFail # NoValue
    /\ lastFail[1].page[1] = "ok"
    /\ lastFail[1].page[2] = "failed"
    /\ lastOk # NoValue
    /\ lastOk[1].id < lastFail[1].id
    /\ coins # <<>>
    /\ \A i \in 1..Len(coins) : coins[i].cycle = lastOk[1].id
    /\ error # ""

\* C2: all rows of the current snapshot come from the responses of one
\* cycle, under every interleaving of overlapping cycles.
C2_SingleCycleSnapshot ==
    \A i, j \in 1..Len(coins) : coins[i].cycle = coins[j].cycle

\* C2 witness: cycle 1 has received its page 1 and still awaits page 2 while
\* a cycle started after it has installed its snapshot.
C2_Witness ==
    /\ 1 \in DOMAIN inflight
    /\ inflight[1].page[1] = "ok"
    /\ lastOk # NoValue
    /\ lastOk[1].id > 1
    /\ coins # <<>>

\* C3: the current snapshot consists of exactly the rows of the successful
\* cycle that completed last, whatever the order the cycles were started in.
C3_LastCompletedWins ==
    lastOk # NoValue =>
        /\ { Base(coins[i]) : i \in 1..Len(coins) } = RowsOf(lastOk[1])
        /\ Len(coins) = Len(lastOk[1].data[1]) + Len(lastOk[1].data[2])

\* C3 witness: all cycles have completed, and the one that succeeded last
\* (cycle 1) was started before another successful one.
C3_Witness ==
    /\ calls >= 2
    /\ DOMAIN inflight = {}
    /\ lastOk # NoValue
    /\ lastOk[1].id = 1
    /\ lastFail = NoValue
    /\ coins # <<>>

\* C4 (as claimed): right after a cycle completes successfully the error is
\* empty and the snapshot is that cycle's data.
C4_SuccessClearsError ==
    [][ SucceedsInStep =>
            /\ error' = ""
            /\ { Base(coins'[i]) : i \in 1..Len(coins') } = RowsOf(lastOk'[1]) ]_vars

\* C5 (as claimed): once the cleanup has run, snapshot, error, loading and
\* last update never change.
C5_NoMutationAfterStop ==
    [][ sched = "stopped" => UNCHANGED <<coins, error, loading, lastUpdate>> ]_vars

\* C6: once the cleanup has run, no fetch cycle is started and the timer
\* never fires, however much time passes.
C6_NoTickAfterStop ==
    [][ sched = "stopped" => (calls' = calls /\ nextTick' = nextTick) ]_vars

\* C6 witness: the scheduler is stopped and the clock has passed the time
\* at which the timer would have fired, with room for another cycle.
C6_Witness ==
    /\ sched = "stopped"
    /\ now > nextTick
    /\ calls < MaxCycles

\* C7: the start of the scheduler begins exactly one cycle at once; while
\* it runs, the clock never passes a due tick, and every firing of the
\* timer, one period after the last, begins a new cycle whatever the state
\* of the earlier cycles (failed, succeeded or in flight).
C7_TickAlwaysStartsCycle ==
    /\ [](sched = "running" =>
            /\ now <= nextTick
            /\ nextTick - now <= Interval
            /\ nextTick % Interval = 0)
    /\ [][ /\ (sched = "idle" /\ sched' = "running") =>
                /\ calls' = 1
                /\ DOMAIN inflight' = {1}
                /\ inflight'[1].startedAt = now
                /\ nextTick' = now + Interval
           /\ (sched = "running" /\ nextTick' # nextTick) =>
                /\ now = nextTick
                /\ nextTick' = nextTick + Interval
                /\ calls' = calls + 1
                /\ DOMAIN inflight' = DOMAIN inflight \cup {calls + 1}
                /\ inflight'[calls + 1].startedAt = now ]_vars

\* C7 witness: a tick has begun a cycle while an earlier cycle was still in
\* flight and after another one had failed.
C7_Witness ==
    /\ sched = "running"
    /\ lastFail # NoValue
    /\ error = ""
    /\ \E c, d \in DOMAIN inflight :
          /\ d < c
          /\ inflight[c].origin = "tick"
          /\ inflight[c].startedAt = now

\* C8 (as claimed): with a non-empty series shorter than the lookback of a
\* horizon, the change is computed against the oldest sample.
C8_FallbackToOldest ==
    dOut # NoValue =>
        LET prices == dIn[1].prices
            nowPrice == dIn[1].current_price
        IN  /\ (0 < Len(prices) /\ Len(prices) < Lookback15m) =>
                dOut[1].price_change_15m = change(nowPrice, prices[1])
            /\ (0 < Len(prices) /\ Len(prices) < Lookback4h) =>
                dOut[1].price_change_4h = change(nowPrice, prices[1])

\* C9 (as claimed): with an empty series, or a reference sample <= 0, the
\* derived change is null.
C9_UnavailableNotZero ==
    dOut # NoValue =>
        LET prices == dIn[1].prices
            n == Len(prices)
        IN  /\ n = 0 =>
                (dOut[1].price_change_15m = NoValue /\ dOut[1].price_change_4h = NoValue)
            /\ (n >= Lookback15m /\ prices[n - Lookback15m + 1] <= 0) =>
                dOut[1].price_change_15m = NoValue
            /\ (n >= Lookback4h /\ prices[n - Lookback4h + 1] <= 0) =>
                dOut[1].price_change_4h = NoValue

\* C10 (as claimed): no two rows of the current snapshot share an id.
C10_UniqueIds ==
    \A i, j \in 1..Len(coins) : i # j => coins[i].id # coins[j].id

\* The rows of s that have a rank.
Ranked(s) == SelectSeq(s, LAMBDA c : c.market_cap_rank # NoValue)

\* C11 (as claimed): a row without a rank is left out of the merged
\* snapshot, which is the merge of the ranked rows of the two pages.
C11_RanklessExcluded ==
    mOut # NoValue =>
        mOut[1].ab = allCoins(PagesFrame(Ranked(mIn[1].data[1]), Ranked(mIn[1].data[2])))

\* C12 (as claimed): merging the pages [A, B] and [B, A] gives the same
\* sequence, for any two pages.
C12_PageOrderIrrelevant ==
    mOut # NoValue => mOut[1].ab = mOut[1].ba

\* No row of page A has the rank of a different row of page B (two missing
\* ranks being the same rank).
NoCrossPageTie(r) ==
    \A i \in 1..Len(r.data[1]), j \in 1..Len(r.data[2]) :
        r.data[1][i].market_cap_rank = r.data[2][j].market_cap_rank
            => r.data[1][i] = r.data[2][j]

\* C12 (amended): merging [A, B] and [B, A] gives the same sequence when no
\* row of A has the same rank as a different row of B.
C12_PageOrderIrrelevantWithoutTies ==
    (mOut # NoValue /\ NoCrossPageTie(mIn[1])) => mOut[1].ab = mOut[1].ba

\* C12 witness: two non-empty pages without a tie, page A holding a rank
\* above one of page B, merged to the same sequence both ways.
C12_Witness ==
    /\ mOut # NoValue
    /\ NoCrossPageTie(mIn[1])
    /\ Len(mIn[1].data[1]) = 2
    /\ Len(mIn[1].data[2]) = 2
    /\ ToNumber(mIn[1].data[1][1].market_cap_rank)
           > ToNumber(mIn[1].data[2][1].market_cap_rank)
    /\ mOut[1].ab = mOut[1].ba

\* The value of a row for the active sort key, as the comparator reads it.
ActiveValue(c) == sortValue(c, sortKey)

\* C13 (as claimed): two rows with equal values of the active sort key
\* stand in ascending rank order in the sorted view.
C13_TiesByAscendingRank ==
    \A i, j \in 1..Len(sortedCoins) :
        (i < j /\ ActiveValue(sortedCoins[i]) = ActiveValue(sortedCoins[j]))
            => ToNumber(sortedCoins[i].market_cap_rank)
                   <= ToNumber(sortedCoins[j].market_cap_rank)

\* C14: sorted by a horizon key, a row without a value for that horizon
\* stands after every row with a value in descending order, and before
\* every row with a value in ascending order.
C14_UnavailableAsNegInfinity ==
    sortKey \in Horizons =>
        \A i, j \in 1..Len(sortedCoins) :
            (/\ Get(sortedCoins[i], HorizonField(sortKey)) = NoValue
             /\ Get(sortedCoins[j], HorizonField(sortKey)) # NoValue)
                => IF sortOrder = "desc" THEN i > j ELSE i < j

\* C14 witness: sorted ascending by 1h, the row without a 1h value stands
\* first, before a row with a negative value.
C14_Witness ==
    /\ sortKey = "1h"
    /\ sortOrder = "asc"
    /\ Len(sortedCoins) >= 3
    /\ Get(sortedCoins[1], HorizonField("1h")) = NoValue
    /\ \E j \in 2..Len(sortedCoins) :
          /\ Get(sortedCoins[j], HorizonField("1h")) # NoValue
          /\ Get(sortedCoins[j], HorizonField("1h"))[1] < 0

\* How often x occurs in s.
Count(s, x) == Cardinality({ i \in 1..Len(s) : s[i] = x })

\* C15: the sorted view holds the rows of the snapshot, each as often as the
\* snapshot does, and a change of the sort selection leaves the snapshot as
\* it is.
C15_ViewIsPermutation ==
    /\ [](/\ Len(sortedCoins) = Len(coins)
          /\ \A i \in 1..Len(coins) :
                Count(sortedCoins, coins[i]) = Count(coins, coins[i]))
    /\ [][(sortKey' # sortKey \/ sortOrder' # sortOrder) => coins' = coins]_vars

\* C15 witness: a view in another order than the snapshot, holding a row
\* that has no value for the active key.
C15_Witness ==
    /\ sortKey = "7d"
    /\ Len(coins) = 4
    /\ sortedCoins # coins
    /\ \E i \in 1..Len(sortedCoins) : ActiveValue(sortedCoins[i]) = <<>>

\* The selection a click on key leads to.
Selected(key) ==
    IF sortKey = key
    THEN <<sortKey, IF sortOrder = "asc" THEN "desc" ELSE "asc">>
    ELSE <<key, "desc">>

\* C16: the selection starts as (rank, desc); a click on the active key
\* keeps the key and flips the order, a click on another key makes that key
\* active with order desc; the selection changes in no other way.
C16_SortSelection ==
    /\ sortKey = "rank" /\ sortOrder = "desc"
    /\ [][/\ \A key \in SortKeys :
                HeaderClick(key) => <<sortKey', sortOrder'>> = Selected(key)
          /\ <<sortKey', sortOrder'>> # <<sortKey, sortOrder>> =>
                \E key \in SortKeys : HeaderClick(key)]_vars

\* C16 witness: after clicks, a key other than rank is active in ascending
\* order (it was selected, then selected again).
C16_Witness ==
    /\ sortKey = "volume"
    /\ sortOrder = "asc"
    /\ coins # <<>>

\* The classes of a flagged cell.
Flagged(cls) ==
    cls \in {"bg-green-100 text-green-800 font-bold animate-pulse",
             "bg-red-100 text-red-800 font-bold animate-pulse"}

\* C17: for every horizon and every available value, the class returned is
\* a flagged one exactly when the magnitude of the value is at least the
\* threshold of the horizon.
C17_FlaggedIffAtLeastThreshold ==
    (cOut # NoValue /\ cIn[1].val # NoValue) =>
        (Flagged(cOut[1]) <=>
            Abs(cIn[1].val[1]) >= userThresholds[cIn[1].tf] * Scale)

\* C17 witness: a negative value whose magnitude equals the threshold has
\* been classified, as flagged.
C17_Witness ==
    /\ cOut # NoValue
    /\ cIn[1].val # NoValue
    /\ cIn[1].val[1] = -(userThresholds[cIn[1].tf] * Scale)
    /\ Flagged(cOut[1])

\* The horizons the alert looks at.
FastHorizons == {"15m", "1h", "4h"}

\* Row c has a value for horizon tf whose magnitude is at least the current
\* threshold of tf.
Crossing(c, tf) ==
    /\ Get(c, HorizonField(tf)) # NoValue
    /\ Abs(Get(c, HorizonField(tf))[1]) >= userThresholds[tf] * Scale

\* C18: the alert signal is true exactly when some row of the snapshot
\* crosses the current threshold on the 15m, 1h or 4h horizon.
C18_AlertIffFastCrossing ==
    bigMove <=> \E i \in 1..Len(coins) : \E tf \in FastHorizons : Crossing(coins[i], tf)

\* C18 witness: a row crosses its 24h threshold, a row has no 15m value, and
\* the signal is false.
C18_Witness ==
    /\ ~bigMove
    /\ \E i \in 1..Len(coins) : Crossing(coins[i], "24h")
    /\ \E i \in 1..Len(coins) : Get(coins[i], "price_change_15m") = NoValue

\* The class of every cell of the table.
Classes ==
    [i \in 1..Len(coins), tf \in Horizons |->
        getChangeClass(Get(coins[i], HorizonField(tf)), tf)]

\* C19: no step that ends muted plays the sound; muting and unmuting leave
\* the class of every cell as it is; and while muted every crossing cell is
\* flagged.
C19_MuteSuppressesOnlySound ==
    /\ [][~soundEnabled' => played' <= played]_vars
    /\ [][soundEnabled' # soundEnabled => Classes' = Classes]_vars
    /\ [](~soundEnabled =>
            \A i \in 1..Len(coins) : \A tf \in Horizons :
                Crossing(coins[i], tf) => Flagged(Classes[i, tf]))

\* C19 witness: muted, the alert signal is set for a snapshot installed
\* while muted, and nothing was played for it.
C19_Witness ==
    /\ ~soundEnabled
    /\ bigMove
    /\ played = 0
    /\ \E i \in 1..Len(coins) : Crossing(coins[i], "15m")

\* C20 (as claimed): for one snapshot the sound is played at most once.
C20_FireOncePerCycle == played <= 1

\* C21: the rows of the snapshot stand in ascending order of rank, whatever
\* order the pages arrived in and whatever sort selection is active.
C21_SnapshotAscendingRank ==
    \A i, j \in 1..Len(coins) :
        i < j => ToNumber(coins[i].market_cap_rank) <= ToNumber(coins[j].market_cap_rank)

\* C21 witness: a snapshot of four rows whose page 2 arrived as (ada, sol),
\* with the table sorted by ascending price.
C21_Witness ==
    /\ sortKey = "price"
    /\ sortOrder = "asc"
    /\ Len(coins) = 4
    /\ coins[3].id = "sol"
    /\ coins[4].id = "ada"
    /\ sortedCoins # coins

\* C22 (as claimed): once the component is mounted, loading is true exactly
\* when some cycle is still awaiting its pages.
C22_LoadingIffInFlight ==
    sched # "idle" => (loading <=> inflight # <<>>)

\* The class of a cell without a value.
Neutral(cls) == cls = "text-gray-400"

\* The classes of a rising value.
Positive(cls) ==
    cls \in {"text-green-600", "bg-green-100 text-green-800 font-bold animate-pulse"}

\* The classes of a value that is not rising.
Negative(cls) ==
    cls \in {"text-red-600", "bg-red-100 text-red-800 font-bold animate-pulse"}

\* C23: the class returned is the neutral one exactly when there is no
\* value; a value above 0 gets a positive class, any other value a negative
\* class, and the value 0 gets the negative class that is not flagged.
C23_NeutralIffUnavailable ==
    cOut # NoValue =>
        /\ Neutral(cOut[1]) <=> cIn[1].val = NoValue
        /\ cIn[1].val # NoValue =>
              /\ Positive(cOut[1]) \/ Negative(cOut[1])
              /\ Positive(cOut[1]) <=> cIn[1].val[1] > 0
        /\ cIn[1].val = <<0>> => cOut[1] = "text-red-600"

\* C23 witness: the value 0 has been classified, as negative and not
\* flagged, with the slider of its horizon at the minimum.
C23_Witness ==
    /\ cOut # NoValue
    /\ cIn[1].val = <<0>>
    /\ userThresholds[cIn[1].tf] = SliderMin
    /\ cOut[1] = "text-red-600"

====
